---- MODULE Spec2Model ----
(***************************************************************************)
(* Model of the AuthProvider session manager (hooks/useAuth): the React    *)
(* state user / isAuthenticated / isLoading, the two Web Storage tiers     *)
(* (localStorage = durable, sessionStorage = ephemeral), the bootstrap      *)
(* timer, the delayed login, logout, updateUser and validateSession, the    *)
(* expiry-sweep interval of the provider, and the forms of the pages.      *)
(*                                                                         *)
(* JavaScript values: null is the record Null; an object is a TLA+ record  *)
(* over its own keys; a string is a record tagged type = "string" that     *)
(* either carries literal text or is the JSON text of a value.             *)
(***************************************************************************)
EXTENDS Integers, Sequences, FiniteSets, TLC

\* ------------------------------------------------------------------ bounds
MaxTicks == 2
MaxPending == 1
MaxOverlap == 2

\* --------------------------------------------------------- JavaScript values
Null == [type |-> "null"]
Undefined == [type |-> "undefined"]
Str(s) == [type |-> "string", text |-> s]

\* `24 * 60 * 60 * 1000 // 24 hours`
maxSessionTime == 24 * 60 * 60 * 1000
\* the clock of the model advances in steps of one session ceiling
TickMs == maxSessionTime

\* new Date().toISOString(): the ISO text of an instant
toISOString(ms) == [type |-> "string", iso |-> ms]
\* new Date(text) followed by the numeric coercion of `now - loginTime`
DateParse(s) == s.iso
\* Date.now().toString()
DateNowToString(ms) == ToString(ms)

\* JSON.stringify(value): "null" for null, otherwise the JSON text of the object
JSONstringify(v) == IF v = Null THEN Str("null") ELSE [type |-> "string", json |-> v]
\* whether JSON.parse(text) returns instead of throwing SyntaxError
JSONparses(s) == "json" \in DOMAIN s \/ s = Str("null")
\* JSON.parse(text), for a text that parses
JSONparse(s) == IF "json" \in DOMAIN s THEN s.json ELSE Null

\* truthiness of a getItem result: null and "" are falsy
Truthy(item) == item # Null /\ item # Str("")

\* { ...a, ...b }: spreading null contributes no keys
Spread(o) == IF o = Null THEN [k \in {} |-> TRUE] ELSE o
Merge(a, b) ==
    LET x == Spread(a)
        y == Spread(b)
    IN  [k \in (DOMAIN x) \cup (DOMAIN y) |-> IF k \in DOMAIN y THEN y[k] ELSE x[k]]

\* ------------------------------------------------------------ Web Storage
EmptyStorage == [user |-> Null, isAuthenticated |-> Null]
getItem(st, key) == st[key]
setItem(st, key, val) == [st EXCEPT ![key] = val]
removeItem(st, key) == [st EXCEPT ![key] = Null]

\* ------------------------------------------------------------------ inputs
Good1 == <<"a", "@", "b", ".", "c">>
Good2 == <<"a", ".", "b", "@", "c", ".", "d">>
NoDot == <<"a", "@", "b">>
BadEmails == { NoDot,
               <<"a", "@", ".", "c">>,
               <<"a", " ", "@", "b", ".", "c">>,
               <<"a", "@", "b", "@", "c", ".", "d">> }
\* the login calls tried: well-formed calls for both tiers, a malformed email with
\* a long enough password, and a short and a missing password with a well-formed
\* email
LoginCalls ==
    { [email |-> Good1, password |-> Str("abcdef"), rememberMe |-> r] : r \in BOOLEAN }
    \cup { [email |-> Good2, password |-> Str("abcdef"), rememberMe |-> TRUE] }
    \cup { [email |-> NoDot, password |-> Str("abcdef"), rememberMe |-> TRUE] }
    \cup { [email |-> Good1, password |-> p, rememberMe |-> FALSE] : p \in {Str("abcde"), Undefined} }
\* the same calls, every malformed email with a long enough password, a null
\* password, and one call that fails both checks
AllLoginCalls ==
    LoginCalls
    \cup { [email |-> e, password |-> Str("abcdef"), rememberMe |-> TRUE] : e \in BadEmails }
    \cup { [email |-> Good1, password |-> Null, rememberMe |-> FALSE] }
    \cup { [email |-> NoDot, password |-> Str("abcde"), rememberMe |-> TRUE] }
\* the calls tried where several logins are in flight together: the well-formed
\* calls for both tiers and one call that fails
OverlapCalls ==
    { c \in LoginCalls : c.password = Str("abcdef") /\ c.email \in {Good1, Good2} }
    \cup { [email |-> Good1, password |-> Undefined, rememberMe |-> FALSE] }
Partials == { [nickname |-> "x"], [email |-> Good2] }

\* a Session written by an earlier run of the application
RememberedSession ==
    [email |-> Good1, rememberMe |-> TRUE, loginTime |-> toISOString(0), id |-> DateNowToString(0)]
TabSession ==
    [email |-> Good1, rememberMe |-> FALSE, loginTime |-> toISOString(0), id |-> DateNowToString(0)]
\* what an earlier run, or anything else on the origin, may have left behind
StoredUserTexts == { Null, Str(""), Str("{bad"), Str("null"), JSONstringify(RememberedSession) }
StoredFlagTexts == { Null, Str("true"), Str("false") }

\* what is typed into the SignUpPage form: one form that passes every check, one
\* more with another email, and forms that fail exactly one check each
Name0 == <<>>
Name1 == <<"J">>
Name2 == <<"J", "o">>
Pass7 == <<"p", "a", "s", "s", "w", "o", "r">>
Pass8 == <<"p", "a", "s", "s", "w", "o", "r", "d">>
Pass8b == <<"P", "a", "s", "s", "w", "o", "r", "d">>
FullForm ==
    [firstName |-> Name2, lastName |-> Name2, email |-> Good1, password |-> Pass8,
     confirmPassword |-> Pass8, agreeToTerms |-> TRUE]
SignUpForms ==
    { FullForm, [FullForm EXCEPT !.email = Good2], [FullForm EXCEPT !.agreeToTerms = FALSE] }
    \cup { [FullForm EXCEPT !.firstName = n] : n \in {Name0, Name1} }
    \cup { [FullForm EXCEPT !.lastName = n] : n \in {Name0, Name1} }
    \cup { [FullForm EXCEPT !.email = e] : e \in {<<>>, NoDot} }
    \cup { [FullForm EXCEPT !.password = q, !.confirmPassword = q] : q \in {<<>>, Pass7} }
    \cup { [FullForm EXCEPT !.confirmPassword = q] : q \in {<<>>, Pass8b} }

\* the forms submitted on LoginPage: an empty, a well-formed and every malformed
\* email, with an empty, a five-character and a six-character password
LoginFormEmails == {<<>>, Good1} \cup BadEmails
LoginFormPasswords == {"", "abcde", "abcdef"}
LoginForms ==
    [email : LoginFormEmails, password : LoginFormPasswords, rememberMe : BOOLEAN]

\* the state of the page components; the provider never touches it.
\* signUp: isSubmitting, toast.message, the keys of errors, the submission waiting on
\* its 2000 ms timer, the navigate('/dashboard') timer, and the route shown
InitialUi ==
    [signUp |-> [isSubmitting |-> FALSE, toast |-> "", errors |-> {}, awaiting |-> <<>>,
                 navigateTimer |-> FALSE, route |-> "/signup"],
     route |-> "/login",
     loginPage |-> [isSubmitting |-> FALSE, toast |-> "", errors |-> {}, awaiting |-> <<>>,
                    calling |-> <<>>, navigateTimer |-> FALSE],
     screen |-> [route |-> "/login", isAuthenticated |-> FALSE, isLoading |-> TRUE,
                 effectDue |-> TRUE],
     forgot |-> [email |-> <<>>, isSubmitting |-> FALSE, isSuccess |-> FALSE, error |-> "",
                 toast |-> "", awaiting |-> FALSE],
     toast |-> [shown |-> FALSE, duration |-> 0, timer |-> <<>>]]

VARIABLES user, isAuthenticated, isLoading, rendered,
          localStorage, sessionStorage, initTimer, pending, now, last,
          mounted, intervals, ui

vars == <<user, isAuthenticated, isLoading, rendered,
          localStorage, sessionStorage, initTimer, pending, now, last,
          mounted, intervals, ui>>

\* the context value of the current render: what consumers read, and the `user`
\* that the closures updateUser and validateSession of that render captured
value == [user |-> user, isAuthenticated |-> isAuthenticated, isLoading |-> isLoading]

\* LoginPage and SignUpPage render a spinner while isLoading, DashboardPage renders
\* nothing while not authenticated: consumers call the provider only once a
\* render has shown isLoading = false
ready == ~rendered.isLoading

\* ----------------------------------------------------------------- login
\* /^[^\s@]+@[^\s@]+\.[^\s@]+$/ .test(email)
NonSpaceNonAt(c) == c \notin {" ", "@"}
emailRegexTestEmptyDomain(s) ==
    \E i \in 1..Len(s), j \in 1..Len(s) :
        /\ 1 < i /\ i < j /\ j < Len(s)
        /\ s[i] = "@" /\ s[j] = "."
        /\ \A k \in 1..Len(s) : k # i => NonSpaceNonAt(s[k])
emailRegexTest(s) ==
    \E i \in 1..Len(s), j \in 1..Len(s) :
        /\ 1 < i /\ i + 1 < j /\ j < Len(s)
        /\ s[i] = "@" /\ s[j] = "."
        /\ \A k \in 1..Len(s) : k # i => NonSpaceNonAt(s[k])

\* password.length < 6
passwordTooShort(p) == Len(p.text) < 6
\* password.length throws a TypeError when password is undefined or null
lengthThrows(p) == p = Undefined \/ p = Null
\* the two throw statements of login, and the TypeError of reading .length
loginThrows(email, password) ==
    \/ ~emailRegexTest(email)
    \/ lengthThrows(password)
    \/ passwordTooShort(password)

\* what the catch block of login receives
loginError(email, password) ==
    IF ~emailRegexTest(email) THEN "Error"
    ELSE IF lengthThrows(password) THEN "TypeError"
    ELSE IF passwordTooShort(password) THEN "Error"
    ELSE "none"
loginSettlesUncaughtTypeError(email, password) ==
    IF emailRegexTest(email) /\ lengthThrows(password) THEN "rejected" ELSE "fulfilled"
\* the try block spans the whole body and the catch returns false: the promise
\* of login is fulfilled whatever was thrown
loginSettles(email, password) == "fulfilled"

userData(email, rememberMe, t) ==
    [email |-> email, rememberMe |-> rememberMe,
     loginTime |-> toISOString(t), id |-> DateNowToString(t)]

\* setItem('user', JSON.stringify(userData)); setItem('isAuthenticated', 'true')
persistSession(st, u) == setItem(setItem(st, "user", JSONstringify(u)), "isAuthenticated", Str("true"))

Init ==
    /\ user = Null
    /\ isAuthenticated = FALSE
    /\ isLoading = TRUE
    /\ rendered = [user |-> Null, isAuthenticated |-> FALSE, isLoading |-> TRUE]
    /\ \E u \in StoredUserTexts, f \in StoredFlagTexts :
          localStorage = [user |-> u, isAuthenticated |-> f]
    /\ sessionStorage \in { EmptyStorage, persistSession(EmptyStorage, TabSession) }
    /\ initTimer = "pending"
    /\ pending = <<>>
    /\ now = 0
    /\ last = [op |-> "mount"]
    /\ mounted = TRUE
    /\ intervals = <<>>
    /\ ui = InitialUi

initSourceEitherTier(ls, ss) == IF Truthy(getItem(ls, "user")) THEN ls ELSE ss
\* the storage initializeAuth reads its two entries from
initSource(ls, ss) == ls
authFlagTruthy(f) == Truthy(f)
\* storedAuth === 'true'
authFlagSet(f) == f = Str("true")
clearCorruptedUserOnly(st) == removeItem(st, "user")
\* the catch block of initializeAuth
clearCorrupted(st) == removeItem(removeItem(st, "user"), "isAuthenticated")

loadingAfterInitWithoutFinally(caught) == caught
\* finally { setIsLoading(false) }: runs whether or not the try block threw
loadingAfterInit(caught) == FALSE

\* setTimeout(initializeAuth, 500) fires
initializeAuth ==
    /\ mounted
    /\ initTimer = "pending"
    /\ initTimer' = "fired"
    /\ LET storedUser == getItem(initSource(localStorage, sessionStorage), "user")
           storedAuth == getItem(initSource(localStorage, sessionStorage), "isAuthenticated")
       IN  IF Truthy(storedUser) /\ authFlagSet(storedAuth)
           THEN IF JSONparses(storedUser)
                THEN /\ user' = JSONparse(storedUser)
                     /\ isAuthenticated' = TRUE
                     /\ localStorage' = localStorage
                     /\ last' = [op |-> "initializeAuth", caught |-> FALSE]
                ELSE /\ localStorage' = clearCorrupted(localStorage)
                     /\ UNCHANGED <<user, isAuthenticated>>
                     /\ last' = [op |-> "initializeAuth", caught |-> TRUE]
           ELSE /\ UNCHANGED <<user, isAuthenticated, localStorage>>
                /\ last' = [op |-> "initializeAuth", caught |-> FALSE]
    /\ isLoading' = loadingAfterInit(last'.caught)
    /\ UNCHANGED <<rendered, sessionStorage, pending, now, mounted, intervals, ui>>

loginCallShowsLoading ==
    /\ mounted
    /\ ready
    /\ Len(pending) < MaxPending
    /\ \E call \in LoginCalls : pending' = Append(pending, call)
    /\ last' = [op |-> "idle"]
    /\ isLoading' = TRUE
    /\ UNCHANGED <<user, isAuthenticated, rendered,
                   localStorage, sessionStorage, initTimer, now, mounted, intervals, ui>>
\* login(email, password, rememberMe) is called: the body suspends on the 1000 ms timer
loginCall ==
    /\ mounted
    /\ ready
    /\ Len(pending) < MaxPending
    /\ \E call \in LoginCalls : pending' = Append(pending, call)
    /\ last' = [op |-> "idle"]
    /\ UNCHANGED <<user, isAuthenticated, isLoading, rendered,
                   localStorage, sessionStorage, initTimer, now, mounted, intervals, ui>>

loginResolveUnlessLoggedOut ==
    /\ mounted
    /\ pending # <<>>
    /\ LET call == Head(pending)
           u == userData(call.email, call.rememberMe, now)
       IN  IF loginThrows(call.email, call.password) \/ last.op = "logout"
           THEN /\ UNCHANGED <<user, isAuthenticated, localStorage, sessionStorage>>
                /\ last' = [op |-> "login", ret |-> FALSE, error |-> loginError(call.email, call.password),
                             settled |-> loginSettles(call.email, call.password), afterLogout |-> (last.op = "logout")]
           ELSE /\ user' = u
                /\ isAuthenticated' = TRUE
                /\ IF call.rememberMe
                   THEN /\ localStorage' = persistSession(localStorage, u)
                        /\ sessionStorage' = sessionStorage
                   ELSE /\ sessionStorage' = persistSession(sessionStorage, u)
                        /\ localStorage' = localStorage
                /\ last' = [op |-> "login", ret |-> TRUE, error |-> "none",
                             settled |-> "fulfilled", afterLogout |-> (last.op = "logout")]
    /\ pending' = Tail(pending)
    /\ UNCHANGED <<isLoading, rendered, initTimer, now, mounted, intervals, ui>>
\* the 1000 ms timer of the oldest login in flight fires and the body runs to its return
loginResolve ==
    /\ mounted
    /\ pending # <<>>
    /\ LET call == Head(pending)
           u == userData(call.email, call.rememberMe, now)
       IN  IF loginThrows(call.email, call.password)
           THEN /\ UNCHANGED <<user, isAuthenticated, localStorage, sessionStorage>>
                /\ last' = [op |-> "login", ret |-> FALSE, error |-> loginError(call.email, call.password),
                             settled |-> loginSettles(call.email, call.password), afterLogout |-> (last.op = "logout")]
           ELSE /\ user' = u
                /\ isAuthenticated' = TRUE
                /\ IF call.rememberMe
                   THEN /\ localStorage' = persistSession(localStorage, u)
                        /\ sessionStorage' = sessionStorage
                   ELSE /\ sessionStorage' = persistSession(sessionStorage, u)
                        /\ localStorage' = localStorage
                /\ last' = [op |-> "login", ret |-> TRUE, error |-> "none",
                             settled |-> "fulfilled", afterLogout |-> (last.op = "logout")]
    /\ pending' = Tail(pending)
    /\ UNCHANGED <<isLoading, rendered, initTimer, now, mounted, intervals, ui>>

purgeUserOnly(st) == removeItem(st, "user")
\* the removeItem calls logout makes on one storage
purge(st) == removeItem(removeItem(st, "user"), "isAuthenticated")

logoutOneTierPerCall ==
    /\ mounted
    /\ ready
    /\ user' = Null
    /\ isAuthenticated' = FALSE
    /\ IF localStorage # purge(localStorage)
       THEN localStorage' = purge(localStorage) /\ sessionStorage' = sessionStorage
       ELSE localStorage' = localStorage /\ sessionStorage' = purge(sessionStorage)
    /\ last' = [op |-> "logout", again |-> (last.op = "logout")]
    /\ UNCHANGED <<isLoading, rendered, initTimer, pending, now, mounted, intervals, ui>>
\* logout()
logout ==
    /\ mounted
    /\ ready
    /\ user' = Null
    /\ isAuthenticated' = FALSE
    /\ localStorage' = purge(localStorage)
    /\ sessionStorage' = purge(sessionStorage)
    /\ last' = [op |-> "logout", again |-> (last.op = "logout")]
    /\ UNCHANGED <<isLoading, rendered, initTimer, pending, now, mounted, intervals, ui>>

\* if (storage.getItem('user')) storage.setItem('user', JSON.stringify(updatedUser))
restore(st, u) == IF Truthy(getItem(st, "user")) THEN setItem(st, "user", JSONstringify(u)) ELSE st

updateUserAuthenticates ==
    /\ mounted
    /\ ready
    /\ \E partial \in Partials :
          LET updatedUser == Merge(rendered.user, partial)
          IN  /\ user' = updatedUser
              /\ localStorage' = restore(localStorage, updatedUser)
              /\ sessionStorage' = restore(sessionStorage, updatedUser)
              /\ last' = [op |-> "updateUser"]
    /\ isAuthenticated' = TRUE
    /\ UNCHANGED <<isLoading, rendered, initTimer, pending, now,
                   mounted, intervals, ui>>
\* updateUser(userData): `user` is the value its closure captured
updateUser ==
    /\ mounted
    /\ ready
    /\ \E partial \in Partials :
          LET updatedUser == Merge(rendered.user, partial)
          IN  /\ user' = updatedUser
              /\ localStorage' = restore(localStorage, updatedUser)
              /\ sessionStorage' = restore(sessionStorage, updatedUser)
              /\ last' = [op |-> "updateUser"]
    /\ UNCHANGED <<isAuthenticated, isLoading, rendered, initTimer, pending, now,
                   mounted, intervals, ui>>

\* user && user.loginTime
hasLoginTime(u) == u # Null /\ "loginTime" \in DOMAIN u
expiredAtCeiling(u, t) == hasLoginTime(u) /\ (t - DateParse(u.loginTime)) >= maxSessionTime
expiredAfterTwoDays(u, t) == hasLoginTime(u) /\ (t - DateParse(u.loginTime)) > 2 * maxSessionTime
\* timeDifference > maxSessionTime
expired(u, t) == hasLoginTime(u) /\ (t - DateParse(u.loginTime)) > maxSessionTime

\* the body of validateSession run on the `user` its closure captured
validateSessionOn(u, caller) ==
    /\ IF expired(u, now)
       THEN /\ user' = Null
            /\ isAuthenticated' = FALSE
            /\ localStorage' = purge(localStorage)
            /\ sessionStorage' = purge(sessionStorage)
            /\ last' = [op |-> "validateSession", ret |-> FALSE, by |-> caller]
       ELSE /\ UNCHANGED <<user, isAuthenticated, localStorage, sessionStorage>>
            /\ last' = [op |-> "validateSession", ret |-> TRUE, by |-> caller]
    /\ UNCHANGED <<isLoading, rendered, initTimer, pending, now, mounted, intervals, ui>>

\* validateSession() called through the context value
validateSession ==
    /\ mounted
    /\ ready
    /\ validateSessionOn(rendered.user, "consumer")

\* an interval set by the effect fires: it calls the validateSession of the render
\* in which the effect ran
sweep ==
    /\ mounted
    /\ \E i \in 1..Len(intervals) : validateSessionOn(intervals[i].user, "interval")

keepInterval(iv) == iv
\* return () => clearInterval(interval): the cleanup of the previous effect run
clearInterval(iv) == <<>>
skipInterval(iv, auth, u) == iv
\* the effect body: if (isAuthenticated) setInterval(validateSession, 60000)
setInterval(iv, auth, u) == IF auth THEN Append(iv, [user |-> u]) ELSE iv
\* useEffect(..., [isAuthenticated, user]): on a commit whose dependencies changed the
\* cleanup of the previous run is followed by a new run of the effect
runEffect(iv, before, after) ==
    IF before.isAuthenticated # after.isAuthenticated \/ before.user # after.user
    THEN setInterval(clearInterval(iv), after.isAuthenticated, after.user)
    ELSE iv

\* the provider re-renders after a state change, publishes a new context value
\* and runs its effects
render ==
    /\ mounted
    /\ rendered # value
    /\ rendered' = value
    /\ intervals' = runEffect(intervals, rendered, value)
    /\ last' = [op |-> "idle"]
    /\ UNCHANGED <<user, isAuthenticated, isLoading, localStorage, sessionStorage,
                   initTimer, pending, now, mounted, ui>>

\* wall-clock time passes
tick ==
    /\ mounted
    /\ now < MaxTicks * TickMs
    /\ now' = now + TickMs
    /\ last' = [op |-> "idle"]
    /\ UNCHANGED <<user, isAuthenticated, isLoading, rendered,
                   localStorage, sessionStorage, initTimer, pending, mounted, intervals, ui>>

\* the provider is torn down with the application: the cleanup of its effect runs
\* and nothing of the application runs afterwards
unmount ==
    /\ mounted
    /\ mounted' = FALSE
    /\ intervals' = clearInterval(intervals)
    /\ last' = [op |-> "unmount"]
    /\ UNCHANGED <<user, isAuthenticated, isLoading, rendered,
                   localStorage, sessionStorage, initTimer, pending, now, ui>>

Next ==
    \/ initializeAuth
    \/ loginCall
    \/ loginResolve
    \/ logout
    \/ updateUser
    \/ validateSession
    \/ render
    \/ tick

Spec == Init /\ [][Next]_vars

\* login(...) is called with any of the arguments tried
loginCallAny ==
    /\ mounted
    /\ ready
    /\ Len(pending) < MaxPending
    /\ \E call \in AllLoginCalls : pending' = Append(pending, call)
    /\ last' = [op |-> "idle"]
    /\ UNCHANGED <<user, isAuthenticated, isLoading, rendered,
                   localStorage, sessionStorage, initTimer, now, mounted, intervals, ui>>

\* what can interleave with a login during its latency of one second: the clock
\* of the model, whose step is a day, stands still
NextLogin ==
    \/ initializeAuth
    \/ loginCallAny
    \/ loginResolve
    \/ logout
    \/ updateUser
    \/ render

\* the 1000 ms timer a login waits on fires
SpecLogin == Init /\ [][NextLogin]_vars /\ WF_vars(loginResolve)


\* a first visit: nothing has been stored on the origin yet
InitFresh ==
    /\ user = Null
    /\ isAuthenticated = FALSE
    /\ isLoading = TRUE
    /\ rendered = [user |-> Null, isAuthenticated |-> FALSE, isLoading |-> TRUE]
    /\ localStorage = EmptyStorage
    /\ sessionStorage = EmptyStorage
    /\ initTimer = "pending"
    /\ pending = <<>>
    /\ now = 0
    /\ last = [op |-> "mount"]
    /\ mounted = TRUE
    /\ intervals = <<>>
    /\ ui = InitialUi

SpecFresh == InitFresh /\ [][Next]_vars

\* the calls the pages of this repository make: LoginPage calls login,
\* DashboardPage calls logout, the provider's own interval calls validateSession;
\* no page calls updateUser or validateSession
NextPages ==
    \/ initializeAuth
    \/ loginCall
    \/ loginResolve
    \/ logout
    \/ sweep
    \/ render
    \/ tick

SpecPages == InitFresh /\ [][NextPages]_vars

\* the pages run while the 500 ms timer set at mount is pending: a timer of the
\* event loop is not postponed forever
SpecBoot == Init /\ [][NextPages]_vars /\ WF_vars(initializeAuth)

\* login(...) is called while other logins may be in flight
loginCallOverlap ==
    /\ mounted
    /\ ready
    /\ Len(pending) < MaxOverlap
    /\ \E call \in OverlapCalls : pending' = Append(pending, call)
    /\ last' = [op |-> "idle"]
    /\ UNCHANGED <<user, isAuthenticated, isLoading, rendered,
                   localStorage, sessionStorage, initTimer, now, mounted, intervals, ui>>

\* the operations that can interleave with logins in flight
NextOverlap ==
    \/ initializeAuth
    \/ loginCallOverlap
    \/ loginResolve
    \/ logout
    \/ updateUser
    \/ validateSession
    \/ render
    \/ tick

SpecOverlap == InitFresh /\ [][NextOverlap]_vars

\* a login early enough for its Session to grow older than 24 hours within MaxTicks
loginCallEarly ==
    /\ now + 2 * TickMs <= MaxTicks * TickMs
    /\ loginCall
\* a day passes: no login, whose latency is one second, is in flight across it
dayPasses ==
    /\ pending = <<>>
    /\ tick
NextSweep ==
    \/ initializeAuth
    \/ loginCallEarly
    \/ loginResolve
    \/ logout
    \/ sweep
    \/ render
    \/ dayPasses

\* the pages on any stored contents, where React commits a scheduled render, the
\* browser fires registered timers and intervals, and time passes
SpecSweep ==
    /\ Init /\ [][NextSweep]_vars
    /\ WF_vars(render) /\ WF_vars(sweep) /\ WF_vars(loginResolve) /\ SF_vars(dayPasses)

\* the life of the sweep interval: what the pages call, updateUser, and the closing
\* of the application at any moment
NextTeardown ==
    \/ NextSweep
    \/ updateUser
    \/ unmount

SpecTeardown == Init /\ [][NextTeardown]_vars

\* ---------------------------------------------------------------- SignUpPage
\* the checks of SignUpPage.handleSubmit: the keys of newErrors
signUpErrors(f) ==
    { k \in {"firstName", "lastName"} : f[k] = <<>> \/ Len(f[k]) < 2 }
    \cup (IF f.email = <<>> \/ ~emailRegexTest(f.email) THEN {"email"} ELSE {})
    \cup (IF f.password = <<>> \/ Len(f.password) < 8 THEN {"password"} ELSE {})
    \cup (IF f.confirmPassword = <<>> \/ f.password # f.confirmPassword
          THEN {"confirmPassword"} ELSE {})
    \cup (IF ~f.agreeToTerms THEN {"agreeToTerms"} ELSE {})

\* const { signup, isAuthenticated, isLoading } = useAuth(): a key the context value
\* does not have destructures to undefined
contextKeys ==
    {"user", "isAuthenticated", "isLoading", "login", "logout", "updateUser", "validateSession"}
fromContext(key) == IF key \in contextKeys THEN Str(key) ELSE Undefined
\* calling a value that is not a function throws a TypeError
callThrows(f) == f = Undefined

\* handleSubmit up to its first await, or to its return on a form error
signUpSubmit ==
    /\ mounted
    /\ ready
    /\ ui.signUp.route = "/signup"
    /\ ~ui.signUp.isSubmitting
    /\ \E f \in SignUpForms :
          IF signUpErrors(f) # {}
          THEN ui' = [ui EXCEPT !.signUp.errors = signUpErrors(f),
                                !.signUp.isSubmitting = FALSE,
                                !.signUp.toast = "Please fix the errors above"]
          ELSE ui' = [ui EXCEPT !.signUp.errors = {},
                                !.signUp.isSubmitting = TRUE,
                                !.signUp.awaiting = <<f>>]
    /\ last' = [op |-> "signUpSubmit"]
    /\ UNCHANGED <<user, isAuthenticated, isLoading, rendered, localStorage, sessionStorage,
                   initTimer, pending, now, mounted, intervals>>

\* the 2000 ms timer fires: handleSubmit calls signup and runs to its end
signUpSettle ==
    /\ mounted
    /\ ui.signUp.awaiting # <<>>
    /\ IF callThrows(fromContext("signup"))
       THEN /\ ui' = [ui EXCEPT !.signUp.toast = "An error occurred. Please try again.",
                                !.signUp.isSubmitting = FALSE,
                                !.signUp.awaiting = <<>>]
            /\ last' = [op |-> "signUpSettle", threw |-> TRUE]
       ELSE /\ \E success \in BOOLEAN :
                  ui' = [ui EXCEPT !.signUp.toast =
                                      IF success THEN "Account created successfully! Redirecting..."
                                      ELSE "Registration failed. Please try again.",
                                   !.signUp.navigateTimer = success,
                                   !.signUp.isSubmitting = FALSE,
                                   !.signUp.awaiting = <<>>]
            /\ last' = [op |-> "signUpSettle", threw |-> FALSE]
    /\ UNCHANGED <<user, isAuthenticated, isLoading, rendered, localStorage, sessionStorage,
                   initTimer, pending, now, mounted, intervals>>

\* navigate('/dashboard') is due: by the effect that redirects an authenticated
\* visitor, or by the timer set after a successful registration
navigateDue == rendered.isAuthenticated \/ ui.signUp.navigateTimer
signUpNavigate ==
    /\ mounted
    /\ ui.signUp.route = "/signup"
    /\ navigateDue
    /\ ui' = [ui EXCEPT !.signUp.route = "/dashboard", !.signUp.navigateTimer = FALSE]
    /\ last' = [op |-> "navigate"]
    /\ UNCHANGED <<user, isAuthenticated, isLoading, rendered, localStorage, sessionStorage,
                   initTimer, pending, now, mounted, intervals>>

\* the application opened on /signup
NextSignUp ==
    \/ initializeAuth
    \/ render
    \/ signUpSubmit
    \/ signUpSettle
    \/ signUpNavigate

SpecSignUp == Init /\ [][NextSignUp]_vars

\* ----------------------------------------------------------------- LoginPage
\* validateEmail of LoginPage: the same pattern as the provider's
validateEmail(email) == emailRegexTest(email)

loginFormErrorsShortOnly(f) ==
    (IF f.email = <<>> \/ ~validateEmail(f.email) THEN {"email"} ELSE {})
    \cup (IF f.password = "" \/ Len(f.password) < 5 THEN {"password"} ELSE {})
\* the checks of LoginPage.handleSubmit: the keys of newErrors
loginFormErrors(f) ==
    (IF f.email = <<>> \/ ~validateEmail(f.email) THEN {"email"} ELSE {})
    \cup (IF f.password = "" \/ Len(f.password) < 6 THEN {"password"} ELSE {})

\* the promise of login has settled and the rest of handleSubmit is the next job
\* of the event loop
loginAnswered == ui.loginPage.calling # <<>> /\ last.op = "login"

\* handleSubmit up to its first await, or to its return on a form error
loginPageSubmit ==
    /\ mounted
    /\ ready
    /\ ui.route = "/login"
    /\ ~ui.loginPage.isSubmitting
    /\ ui.loginPage.awaiting = <<>> /\ ui.loginPage.calling = <<>>
    /\ \E f \in LoginForms :
          /\ IF loginFormErrors(f) # {}
             THEN ui' = [ui EXCEPT !.loginPage.errors = loginFormErrors(f),
                                   !.loginPage.isSubmitting = FALSE,
                                   !.loginPage.toast = "Please fix the errors above"]
             ELSE ui' = [ui EXCEPT !.loginPage.errors = {},
                                   !.loginPage.isSubmitting = TRUE,
                                   !.loginPage.awaiting = <<f>>]
          /\ last' = [op |-> "loginPageSubmit", form |-> f]
    /\ UNCHANGED <<user, isAuthenticated, isLoading, rendered, localStorage, sessionStorage,
                   initTimer, pending, now, mounted, intervals>>

\* the 1500 ms timer fires: handleSubmit calls login with the form it validated
loginPageCall ==
    /\ mounted
    /\ ui.loginPage.awaiting # <<>>
    /\ LET f == Head(ui.loginPage.awaiting)
           call == [email |-> f.email, password |-> Str(f.password), rememberMe |-> f.rememberMe]
       IN  /\ pending' = Append(pending, call)
           /\ ui' = [ui EXCEPT !.loginPage.awaiting = <<>>, !.loginPage.calling = <<call>>]
    /\ last' = [op |-> "loginPageCall"]
    /\ UNCHANGED <<user, isAuthenticated, isLoading, rendered, localStorage, sessionStorage,
                   initTimer, now, mounted, intervals>>

\* handleSubmit resumes with what login returned and runs to its end
loginPageSettle ==
    /\ mounted
    /\ loginAnswered
    /\ LET success == last.ret
       IN  /\ ui' = [ui EXCEPT !.loginPage.toast =
                                   IF success THEN "Login successful! Redirecting..."
                                   ELSE "Login failed. Please check your credentials.",
                                !.loginPage.navigateTimer = success,
                                !.loginPage.isSubmitting = FALSE,
                                !.loginPage.calling = <<>>]
           /\ last' = [op |-> "loginPageSettle", success |-> success]
    /\ UNCHANGED <<user, isAuthenticated, isLoading, rendered, localStorage, sessionStorage,
                   initTimer, pending, now, mounted, intervals>>

\* navigate('/dashboard'): by the effect that redirects an authenticated visitor,
\* or by the timer set after a successful login
loginPageNavigate ==
    /\ mounted
    /\ \/ ui.route = "/login" /\ rendered.isAuthenticated
       \/ ui.loginPage.navigateTimer
    /\ ui.route # "/dashboard" \/ ui.loginPage.navigateTimer
    /\ ui' = [ui EXCEPT !.route = "/dashboard", !.loginPage.navigateTimer = FALSE]
    /\ last' = [op |-> "navigate"]
    /\ UNCHANGED <<user, isAuthenticated, isLoading, rendered, localStorage, sessionStorage,
                   initTimer, pending, now, mounted, intervals>>

\* the application opened on /login; the continuation of an answered login runs
\* before any other task
NextLoginPage ==
    \/ loginPageSettle
    \/ ~loginAnswered /\ initializeAuth
    \/ ~loginAnswered /\ render
    \/ ~loginAnswered /\ loginPageSubmit
    \/ ~loginAnswered /\ loginPageCall
    \/ ~loginAnswered /\ loginResolve
    \/ ~loginAnswered /\ loginPageNavigate

SpecLoginPage == Init /\ [][NextLoginPage]_vars

\* ------------------------------------------------------- routes and redirects
\* the routes of App the application may be opened on
StartRoutes == {"/", "/login", "/signup", "/dashboard"}
\* <Route path=... element=...>: the page component a route renders
pageOf(route) ==
    CASE route \in {"/", "/login"} -> "LoginPage"
      [] route = "/signup" -> "SignUpPage"
      [] route = "/dashboard" -> "DashboardPage"
      [] OTHER -> "ForgotPasswordPage"

\* ui.screen is the last render of the page on the route: the route it rendered, the
\* isAuthenticated and isLoading it read from the context, and whether its redirect
\* effect is still to run. The page is stale when the route or the context changed.
pageStale ==
    \/ ui.screen.route # ui.route
    \/ ui.screen.isAuthenticated # rendered.isAuthenticated
    \/ ui.screen.isLoading # rendered.isLoading

dashboardContentUnguarded == ui.screen.route = "/dashboard"
\* DashboardPage returns null unless isAuthenticated
dashboardContent == ui.screen.route = "/dashboard" /\ ui.screen.isAuthenticated
\* LoginPage shows its form unless isLoading
loginFormShown == pageOf(ui.screen.route) = "LoginPage" /\ ~ui.screen.isLoading

\* the page on the route renders in the commit of the provider's render or of a
\* navigation; its effect with dependencies [isAuthenticated, navigate] is due after
\* a mount and after a render that read another isAuthenticated
pageRender ==
    /\ mounted
    /\ pageStale
    /\ ui' = [ui EXCEPT !.screen =
                 [route |-> ui.route,
                  isAuthenticated |-> rendered.isAuthenticated,
                  isLoading |-> rendered.isLoading,
                  effectDue |-> \/ ui.screen.effectDue /\ ui.screen.route = ui.route
                                \/ ui.screen.route # ui.route
                                \/ ui.screen.isAuthenticated # rendered.isAuthenticated]]
    /\ last' = [op |-> "pageRender", over |-> dashboardContent]
    /\ UNCHANGED <<user, isAuthenticated, isLoading, rendered, localStorage, sessionStorage,
                   initTimer, pending, now, mounted, intervals>>

redirectFromDashboardOnly(screen) ==
    CASE pageOf(screen.route) = "DashboardPage" /\ ~screen.isAuthenticated -> "/login"
      [] OTHER -> screen.route
\* where the redirect effect of the page navigates to, or the route it leaves alone
redirect(screen) ==
    CASE pageOf(screen.route) \in {"LoginPage", "SignUpPage"} /\ screen.isAuthenticated -> "/dashboard"
      [] pageOf(screen.route) = "DashboardPage" /\ ~screen.isAuthenticated -> "/login"
      [] OTHER -> screen.route

\* the redirect effect of the rendered page runs
pageEffect ==
    /\ mounted
    /\ ui.screen.effectDue
    /\ ui' = [ui EXCEPT !.screen.effectDue = FALSE, !.route = redirect(ui.screen)]
    /\ last' = [op |-> "pageEffect", from |-> ui.screen.route, to |-> redirect(ui.screen)]
    /\ UNCHANGED <<user, isAuthenticated, isLoading, rendered, localStorage, sessionStorage,
                   initTimer, pending, now, mounted, intervals>>

\* DashboardPage.handleLogout, confirmed: logout() ...
handleLogout == dashboardContent /\ logout
\* ... and navigate('/login'), in the same event handler
handleLogoutDone == last.op = "logout" /\ ui.route = "/dashboard"
handleLogoutNavigate ==
    /\ mounted
    /\ handleLogoutDone
    /\ ui' = [ui EXCEPT !.route = "/login"]
    /\ last' = [op |-> "handleLogout"]
    /\ UNCHANGED <<user, isAuthenticated, isLoading, rendered, localStorage, sessionStorage,
                   initTimer, pending, now, mounted, intervals>>

\* a login submitted from the form of LoginPage
loginFromForm == loginFormShown /\ loginCall

\* the application opened on any route, with anything in storage
InitApp ==
    /\ user = Null
    /\ isAuthenticated = FALSE
    /\ isLoading = TRUE
    /\ rendered = [user |-> Null, isAuthenticated |-> FALSE, isLoading |-> TRUE]
    /\ \E u \in StoredUserTexts, f \in StoredFlagTexts :
          localStorage = [user |-> u, isAuthenticated |-> f]
    /\ sessionStorage = EmptyStorage
    /\ initTimer = "pending"
    /\ pending = <<>>
    /\ now = 0
    /\ last = [op |-> "mount"]
    /\ mounted = TRUE
    /\ intervals = <<>>
    /\ \E r \in StartRoutes :
          ui = [InitialUi EXCEPT !.route = r, !.screen.route = r]

\* a commit is one step of React: the pages render before anything else runs, and
\* an event handler runs to its end
busy == pageStale \/ handleLogoutDone
NextApp ==
    \/ ~handleLogoutDone /\ pageRender
    \/ handleLogoutNavigate
    \/ ~busy /\ pageEffect
    \/ ~busy /\ initializeAuth
    \/ ~busy /\ render
    \/ ~busy /\ loginFromForm
    \/ ~busy /\ loginResolve
    \/ ~busy /\ handleLogout
    \/ ~busy /\ sweep
    \/ ~busy /\ tick

SpecApp == InitApp /\ [][NextApp]_vars

\* -------------------------------------------------------- ForgotPasswordPage
\* the emails submitted on ForgotPasswordPage
ForgotEmails == {<<>>, Good1, Good2} \cup BadEmails

\* the check handleSubmit stops at, or "" when the email passes both
forgotError(email) ==
    IF email = <<>> THEN "Email is required"
    ELSE IF ~validateEmail(email) THEN "Please enter a valid email address"
    ELSE ""

\* handleSubmit up to its await, or to its return on a rejected email
forgotSubmit ==
    /\ mounted
    /\ ui.route = "/forgot-password"
    /\ ~ui.forgot.isSuccess
    /\ ~ui.forgot.isSubmitting
    /\ \E e \in ForgotEmails :
          /\ IF forgotError(e) # ""
             THEN ui' = [ui EXCEPT !.forgot.email = e, !.forgot.error = forgotError(e)]
             ELSE ui' = [ui EXCEPT !.forgot.email = e, !.forgot.error = "",
                                   !.forgot.isSubmitting = TRUE, !.forgot.awaiting = TRUE]
          /\ last' = [op |-> "forgotSubmit", email |-> e]
    /\ UNCHANGED <<user, isAuthenticated, isLoading, rendered, localStorage, sessionStorage,
                   initTimer, pending, now, mounted, intervals>>

forgotSettleWithoutFinally ==
    /\ mounted
    /\ ui.forgot.awaiting
    /\ ui' = [ui EXCEPT !.forgot.isSuccess = TRUE,
                        !.forgot.toast = "Password reset instructions sent to your email!",
                        !.forgot.awaiting = FALSE]
    /\ last' = [op |-> "forgotSettle"]
    /\ UNCHANGED <<user, isAuthenticated, isLoading, rendered, localStorage, sessionStorage,
                   initTimer, pending, now, mounted, intervals>>
\* the 2000 ms timer fires: handleSubmit runs to its end
forgotSettle ==
    /\ mounted
    /\ ui.forgot.awaiting
    /\ ui' = [ui EXCEPT !.forgot.isSuccess = TRUE,
                        !.forgot.toast = "Password reset instructions sent to your email!",
                        !.forgot.isSubmitting = FALSE,
                        !.forgot.awaiting = FALSE]
    /\ last' = [op |-> "forgotSettle"]
    /\ UNCHANGED <<user, isAuthenticated, isLoading, rendered, localStorage, sessionStorage,
                   initTimer, pending, now, mounted, intervals>>

forgotTryAgainKeepsEmail ==
    /\ mounted
    /\ ui.route = "/forgot-password"
    /\ ui.forgot.isSuccess
    /\ ui' = [ui EXCEPT !.forgot.isSuccess = FALSE]
    /\ last' = [op |-> "forgotTryAgain"]
    /\ UNCHANGED <<user, isAuthenticated, isLoading, rendered, localStorage, sessionStorage,
                   initTimer, pending, now, mounted, intervals>>
\* the "Try again" button of the success view
forgotTryAgain ==
    /\ mounted
    /\ ui.route = "/forgot-password"
    /\ ui.forgot.isSuccess
    /\ ui' = [ui EXCEPT !.forgot.isSuccess = FALSE, !.forgot.email = <<>>]
    /\ last' = [op |-> "forgotTryAgain"]
    /\ UNCHANGED <<user, isAuthenticated, isLoading, rendered, localStorage, sessionStorage,
                   initTimer, pending, now, mounted, intervals>>

\* the application opened on the given route
InitOn(route) ==
    /\ user = Null
    /\ isAuthenticated = FALSE
    /\ isLoading = TRUE
    /\ rendered = [user |-> Null, isAuthenticated |-> FALSE, isLoading |-> TRUE]
    /\ \E u \in StoredUserTexts, f \in StoredFlagTexts :
          localStorage = [user |-> u, isAuthenticated |-> f]
    /\ sessionStorage \in { EmptyStorage, persistSession(EmptyStorage, TabSession) }
    /\ initTimer = "pending"
    /\ pending = <<>>
    /\ now = 0
    /\ last = [op |-> "mount"]
    /\ mounted = TRUE
    /\ intervals = <<>>
    /\ ui = [InitialUi EXCEPT !.route = route, !.screen.route = route, !.signUp.route = route]

NextForgot ==
    \/ initializeAuth
    \/ render
    \/ forgotSubmit
    \/ forgotSettle
    \/ forgotTryAgain

\* a timer of the event loop is not postponed forever
SpecForgot == InitOn("/forgot-password") /\ [][NextForgot]_vars /\ WF_vars(forgotSettle)

\* ------------------------------------------------------- the three form pages
\* the routes of the pages that submit a form
FormRoutes == {"/login", "/signup", "/forgot-password"}
InitForms == \E route \in FormRoutes : InitOn(route)

\* the application opened on one of the form pages
NextForms ==
    \/ loginPageSettle
    \/ ~loginAnswered /\ initializeAuth
    \/ ~loginAnswered /\ render
    \/ ~loginAnswered /\ loginPageSubmit
    \/ ~loginAnswered /\ loginPageCall
    \/ ~loginAnswered /\ loginResolve
    \/ ~loginAnswered /\ loginPageNavigate
    \/ signUpSubmit
    \/ signUpSettle
    \/ signUpNavigate
    \/ forgotSubmit
    \/ forgotSettle
    \/ forgotTryAgain

\* the timers of the handlers fire and the continuation of an answered login runs
SpecForms ==
    /\ InitForms
    /\ [][NextForms]_vars
    /\ WF_vars(loginPageCall) /\ WF_vars(loginResolve) /\ WF_vars(loginPageSettle)
    /\ WF_vars(signUpSettle)
    /\ WF_vars(forgotSettle)

\* ----------------------------------------------------------------------- Toast
\* `duration = 5000`, in ticks of the clock the toast timer is followed with
defaultDuration == 2
\* the duration props tried: the default and two that switch the timer off
Durations == {-1, 0, defaultDuration}

\* the effect of Toast: if (duration > 0) setTimeout(() => onClose(), duration)
startTimer(duration) == IF duration > 0 THEN <<duration>> ELSE <<>>
\* its cleanup: clearTimeout(timer)
clearTimeout(timer) == <<>>

\* the page sets toast.show: Toast mounts and its effect runs
toastShow ==
    /\ mounted
    /\ ~ui.toast.shown
    /\ \E d \in Durations :
          ui' = [ui EXCEPT !.toast = [shown |-> TRUE, duration |-> d, timer |-> startTimer(d)]]
    /\ last' = [op |-> "toastShow"]
    /\ UNCHANGED <<user, isAuthenticated, isLoading, rendered, localStorage, sessionStorage,
                   initTimer, pending, now, mounted, intervals>>

\* the page re-renders while the toast is shown: closeToast is a new function, so
\* the dependencies [duration, onClose] changed, the cleanup runs and the effect
\* runs again
toastParentRender ==
    /\ mounted
    /\ ui.toast.shown
    /\ ui' = [ui EXCEPT !.toast.timer = startTimer(ui.toast.duration)]
    /\ last' = [op |-> "toastParentRender", cleared |-> clearTimeout(ui.toast.timer) = <<>>]
    /\ UNCHANGED <<user, isAuthenticated, isLoading, rendered, localStorage, sessionStorage,
                   initTimer, pending, now, mounted, intervals>>

\* one tick of the time the pending timer still has to wait
toastTime ==
    /\ mounted
    /\ ui.toast.timer # <<>>
    /\ Head(ui.toast.timer) > 0
    /\ ui' = [ui EXCEPT !.toast.timer = <<Head(ui.toast.timer) - 1>>]
    /\ last' = [op |-> "toastTime"]
    /\ UNCHANGED <<user, isAuthenticated, isLoading, rendered, localStorage, sessionStorage,
                   initTimer, pending, now, mounted, intervals>>

\* the timer fires: onClose() is closeToast, which hides the toast; Toast unmounts
toastFire ==
    /\ mounted
    /\ ui.toast.timer # <<>>
    /\ Head(ui.toast.timer) = 0
    /\ ui' = [ui EXCEPT !.toast.shown = FALSE, !.toast.timer = <<>>]
    /\ last' = [op |-> "toastFire", shown |-> ui.toast.shown]
    /\ UNCHANGED <<user, isAuthenticated, isLoading, rendered, localStorage, sessionStorage,
                   initTimer, pending, now, mounted, intervals>>

\* Toast unmounts before its timer fired (the close button, or the page is left):
\* the cleanup of the effect runs
toastUnmount ==
    /\ mounted
    /\ ui.toast.shown
    /\ ui' = [ui EXCEPT !.toast.shown = FALSE, !.toast.timer = clearTimeout(ui.toast.timer)]
    /\ last' = [op |-> "toastUnmount"]
    /\ UNCHANGED <<user, isAuthenticated, isLoading, rendered, localStorage, sessionStorage,
                   initTimer, pending, now, mounted, intervals>>

NextToast ==
    \/ initializeAuth
    \/ render
    \/ toastShow
    \/ toastParentRender
    \/ toastTime
    \/ toastFire
    \/ toastUnmount

\* time passes, and a timer that keeps coming due fires; nothing obliges the page
\* to stop re-rendering
SpecToast == Init /\ [][NextToast]_vars /\ WF_vars(toastTime) /\ SF_vars(toastFire)

\* --------------------------------------------------------------------- reload
\* the page is reloaded in the same tab: the provider is constructed again and its
\* bootstrap timer is set; timers and logins of the old page are gone; both
\* storages keep their contents
reload ==
    /\ mounted
    /\ user' = Null
    /\ isAuthenticated' = FALSE
    /\ isLoading' = TRUE
    /\ rendered' = [user |-> Null, isAuthenticated |-> FALSE, isLoading |-> TRUE]
    /\ initTimer' = "pending"
    /\ pending' = <<>>
    /\ intervals' = <<>>
    /\ last' = [op |-> "reload"]
    /\ UNCHANGED <<localStorage, sessionStorage, now, mounted, ui>>

\* every call of the provider from fresh storage, and reloads
NextReload ==
    \/ Next
    \/ reload

SpecReload == InitFresh /\ [][NextReload]_vars

\* -------------------------------------------------------------------- start-up
\* the application starts and the visitor does nothing: a commit renders the page,
\* the effects of a commit run before the next task, and the 500 ms bootstrap
\* timer fires after the effects of the first commit
NextStart ==
    \/ pageRender
    \/ ~pageStale /\ pageEffect
    \/ ~pageStale /\ ~ui.screen.effectDue /\ render
    \/ ~pageStale /\ ~ui.screen.effectDue /\ rendered = value /\ initializeAuth

\* the event loop keeps running
SpecStart == InitApp /\ [][NextStart]_vars /\ WF_vars(NextStart)

\* ==================================================================== claims
HasUser(st) == getItem(st, "user") # Null
HasFlag(st) == getItem(st, "isAuthenticated") # Null
Purged(st) == ~HasUser(st) /\ ~HasFlag(st)
Remembered(u) == u # Null /\ "rememberMe" \in DOMAIN u /\ u.rememberMe = TRUE

\* the shape the specification words: one or more characters that are neither
\* whitespace nor @, an @, one or more such characters, a dot, one or more such
PlainRun(s) == Len(s) >= 1 /\ \A k \in 1..Len(s) : s[k] # " " /\ s[k] # "@"
ShapeOK(s) ==
    \E i \in 1..Len(s), j \in 1..Len(s) :
        /\ i < j /\ s[i] = "@" /\ s[j] = "."
        /\ PlainRun(SubSeq(s, 1, i - 1))
        /\ PlainRun(SubSeq(s, i + 1, j - 1))
        /\ PlainRun(SubSeq(s, j + 1, Len(s)))
LongEnough(p) == p # Undefined /\ p # Null /\ Len(p.text) >= 6
TooShort(p) == p # Undefined /\ p # Null /\ Len(p.text) < 6

\* C1: in every reachable state user is non-null if and only if isAuthenticated
\* is true.
C1_UserIffAuthenticated == (user # Null) <=> isAuthenticated

\* C2: whenever isAuthenticated is true the `user` entry is present in exactly one
\* tier: localStorage and not sessionStorage when user.rememberMe is true,
\* sessionStorage and not localStorage when it is false.
C2_ExactlyOneTier ==
    isAuthenticated =>
        IF Remembered(user)
        THEN HasUser(localStorage) /\ ~HasUser(sessionStorage)
        ELSE HasUser(sessionStorage) /\ ~HasUser(localStorage)

\* C3: a login call with a well-shaped email and a password of at least 6
\* characters resolves true, sets isAuthenticated and a new user carrying the
\* call's email and rememberMe, writes `user` and the flag "true" into the tier
\* rememberMe selects, and afterwards the other tier holds no `user` entry.
C3_LoginSuccess ==
    [][ (last'.op = "login" /\ ShapeOK(Head(pending).email) /\ LongEnough(Head(pending).password)) =>
          LET call == Head(pending)
              chosen == IF call.rememberMe THEN localStorage' ELSE sessionStorage'
              other == IF call.rememberMe THEN sessionStorage' ELSE localStorage'
          IN  /\ last'.ret = TRUE
              /\ isAuthenticated' = TRUE
              /\ user' # Null
              /\ user'.email = call.email
              /\ user'.rememberMe = call.rememberMe
              /\ getItem(chosen, "user") = JSONstringify(user')
              /\ getItem(chosen, "isAuthenticated") = Str("true")
              /\ ~HasUser(other) ]_vars

\* C4: a login call whose email fails the shape check, or whose password is
\* shorter than 6 characters, resolves false and leaves user, isAuthenticated and
\* both storage tiers as they were.
C4_LoginFailureNoOp ==
    [][ (last'.op = "login" /\ (~ShapeOK(Head(pending).email) \/ TooShort(Head(pending).password))) =>
          /\ last'.ret = FALSE
          /\ UNCHANGED <<user, isAuthenticated, localStorage, sessionStorage>> ]_vars

\* a rejected login has just returned while a session was live in both the state
\* and a storage tier
C4_Witness ==
    /\ last.op = "login" /\ last.ret = FALSE
    /\ isAuthenticated /\ user # Null
    /\ HasUser(localStorage) \/ HasUser(sessionStorage)

\* C5: after logout user is null, isAuthenticated is false and neither key is
\* present in either storage tier.
C5_LogoutClearsAll ==
    last.op = "logout" =>
        /\ user = Null
        /\ isAuthenticated = FALSE
        /\ Purged(localStorage)
        /\ Purged(sessionStorage)

\* logout has just ended a session that the not yet refreshed render still shows
C5_Witness ==
    /\ last.op = "logout"
    /\ rendered.isAuthenticated /\ rendered.user # Null
    /\ user = Null

\* milliseconds between the loginTime of a session and the current time
Elapsed(u) == now - u.loginTime.iso
SessionSeen == rendered.user # Null /\ "loginTime" \in DOMAIN rendered.user

\* C6: when validateSession is called on a Session whose loginTime lies more
\* than 24 hours before the current time, it returns false and leaves user null,
\* isAuthenticated false and both storage tiers without either key.
C6_ExpiredSessionLogsOut ==
    [][ (last'.op = "validateSession" /\ SessionSeen /\ Elapsed(rendered.user) > 86400000) =>
          /\ last'.ret = FALSE
          /\ user' = Null
          /\ isAuthenticated' = FALSE
          /\ Purged(localStorage')
          /\ Purged(sessionStorage') ]_vars

\* validateSession has just ended a session that the render still shows
C6_Witness ==
    /\ last.op = "validateSession" /\ last.ret = FALSE
    /\ rendered.isAuthenticated /\ SessionSeen
    /\ user = Null /\ ~isAuthenticated

C8_BootstrapRecovery ==
    [][ last'.op = "initializeAuth" =>
          LET storedUser == getItem(localStorage, "user")
              storedAuth == getItem(localStorage, "isAuthenticated")
          IN  IF storedUser # Null /\ JSONparses(storedUser) /\ storedAuth = Str("true")
              THEN isAuthenticated' = TRUE /\ user' = JSONparse(storedUser)
              ELSE isAuthenticated' = FALSE /\ user' = Null ]_vars

\* bootstrap has just recovered the remembered session
C8_Witness ==
    /\ last.op = "initializeAuth"
    /\ isAuthenticated /\ user = RememberedSession

\* C9 as stated: bootstrap with a `user` entry that is not valid JSON, whatever
\* the durable flag holds, ends anonymous with user null, isLoading false and
\* both durable keys removed.
C9_MalformedAlwaysCleared ==
    [][ (last'.op = "initializeAuth" /\ HasUser(localStorage) /\ ~JSONparses(getItem(localStorage, "user"))) =>
          /\ isAuthenticated' = FALSE
          /\ user' = Null
          /\ isLoading' = FALSE
          /\ Purged(localStorage') ]_vars

\* C9 amended: bootstrap with a non-empty `user` entry that is not valid JSON
\* and a durable flag that is exactly "true" ends anonymous with user null,
\* isLoading false and both durable keys removed, the error being caught.
C9_MalformedClearedWhenFlagged ==
    [][ (/\ last'.op = "initializeAuth"
         /\ Truthy(getItem(localStorage, "user"))
         /\ ~JSONparses(getItem(localStorage, "user"))
         /\ getItem(localStorage, "isAuthenticated") = Str("true")) =>
          /\ last'.caught = TRUE
          /\ isAuthenticated' = FALSE
          /\ user' = Null
          /\ isLoading' = FALSE
          /\ Purged(localStorage') ]_vars

\* bootstrap has just caught the parse error of a corrupted entry
C9_Witness ==
    /\ last.op = "initializeAuth" /\ last.caught = TRUE
    /\ ~isLoading /\ ~isAuthenticated
    /\ Purged(localStorage)

\* C10: bootstrap leaves sessionStorage as it is, and a Session that is present
\* only in sessionStorage, with its flag "true", is not recovered: the manager
\* is anonymous when bootstrap completes.
C10_EphemeralNotRecovered ==
    [][ last'.op = "initializeAuth" =>
          /\ sessionStorage' = sessionStorage
          /\ (/\ HasUser(sessionStorage)
              /\ getItem(sessionStorage, "isAuthenticated") = Str("true")
              /\ ~HasUser(localStorage)) =>
                 (isAuthenticated' = FALSE /\ user' = Null) ]_vars

\* bootstrap has just completed over a session held by sessionStorage alone
C10_Witness ==
    /\ last.op = "initializeAuth"
    /\ getItem(sessionStorage, "user") = JSONstringify(TabSession)
    /\ ~HasUser(localStorage)
    /\ ~isAuthenticated /\ user = Null

\* C11: isLoading starts true and, whatever localStorage holds at mount (nothing, a
\* valid session, a session without its flag, malformed JSON), is eventually false
\* once the startup timer has fired, whether or not a session was recovered.
C11_LoadingEventuallyEnds == (isLoading = TRUE) /\ <>(isLoading = FALSE)
\* bootstrap has run on malformed JSON and its catch block was taken
C11_Witness ==
    /\ last.op = "initializeAuth"
    /\ last.caught
    /\ ~isLoading
    /\ ~isAuthenticated

\* C12: once isLoading is false it is never true again, and no step of login (its
\* call, its latency, its resolution), logout, updateUser or validateSession changes
\* isLoading.
C12_LoadingOnlyDuringBootstrap ==
    [][ /\ (~isLoading => ~isLoading')
        /\ (last'.op # "initializeAuth" => isLoading' = isLoading) ]_vars
\* after bootstrap a login has resolved and another one is in its latency
C12_Witness ==
    /\ ~isLoading
    /\ initTimer = "fired"
    /\ isAuthenticated
    /\ pending # <<>>

\* the object u is prev with the fields of partial laid over it
MergedOver(u, prev, partial) ==
    /\ u # Null
    /\ DOMAIN u = (DOMAIN prev) \cup (DOMAIN partial)
    /\ \A k \in DOMAIN partial : u[k] = partial[k]
    /\ \A k \in (DOMAIN prev) \ (DOMAIN partial) : u[k] = prev[k]
\* a tier keeps its flag, and its user entry is rewritten with u exactly when it had one
Reserialized(before, after, u) ==
    /\ getItem(after, "isAuthenticated") = getItem(before, "isAuthenticated")
    /\ getItem(after, "user") = IF HasUser(before) THEN JSONstringify(u) ELSE Null

\* C13: updateUser(partial) called while authenticated (in the manager and in the
\* render the caller sees) yields a user with every field of partial and every other
\* field of the previous Session unchanged, rewrites the user entry of each tier
\* that had one with the merged object, creates no user entry, and changes neither
\* isAuthenticated nor a stored flag.
C13_UpdateUserMerges ==
    [][ (last'.op = "updateUser" /\ isAuthenticated /\ rendered.isAuthenticated /\ user # Null) =>
          /\ \E partial \in Partials : MergedOver(user', user, partial)
          /\ Reserialized(localStorage, localStorage', user')
          /\ Reserialized(sessionStorage, sessionStorage', user')
          /\ isAuthenticated' = isAuthenticated ]_vars

\* the step is a firing of the sweep interval
SweepFires == last'.op = "validateSession" /\ last'.by = "interval"

\* C14 as stated: the sweep interval exists exactly while isAuthenticated is true, so
\* no sweep fires once the manager is Anonymous (after logout or expiry).
C14_NoSweepWhileAnonymous == [][ SweepFires => isAuthenticated ]_vars

\* C14 amended: the interval follows the committed render. After every step at most
\* one interval is active; one is active exactly when the provider is mounted and
\* its last committed render has isAuthenticated true; the active interval belongs
\* to that render (it holds that render's user); a sweep fires only on a mounted
\* provider whose committed render is authenticated; teardown leaves no interval.
C14_IntervalFollowsCommittedRender ==
    [][ /\ Len(intervals') <= 1
        /\ (intervals' # <<>>) <=> (mounted' /\ rendered'.isAuthenticated)
        /\ \A i \in 1..Len(intervals') : intervals'[i].user = rendered'.user
        /\ SweepFires => (mounted /\ rendered.isAuthenticated)
        /\ ~mounted' => intervals' = <<>> ]_vars
\* the provider was torn down while authenticated and its interval is gone
C14_Witness ==
    /\ ~mounted
    /\ last.op = "unmount"
    /\ isAuthenticated
    /\ rendered.isAuthenticated
    /\ intervals = <<>>

\* initializeAuth found a non-empty user entry and the flag "true" and parsed it
Recovering ==
    /\ last'.op = "initializeAuth"
    /\ ~last'.caught
    /\ Truthy(getItem(localStorage, "user"))
    /\ getItem(localStorage, "isAuthenticated") = Str("true")

\* C15: isAuthenticated goes from false to true only by a login that resolves true
\* or by bootstrap recovering a stored Session, from true to false only by logout or
\* by a validateSession that detects expiry, and a login that resolves false leaves
\* user, isAuthenticated and both tiers as they were, in either state.
C15_TwoStateMachine ==
    [][ /\ (~isAuthenticated /\ isAuthenticated') =>
               (last'.op = "login" /\ last'.ret) \/ Recovering
        /\ (isAuthenticated /\ ~isAuthenticated') =>
               last'.op = "logout" \/ (last'.op = "validateSession" /\ ~last'.ret)
        /\ (last'.op = "login" /\ ~last'.ret) =>
               UNCHANGED <<user, isAuthenticated, localStorage, sessionStorage>> ]_vars
\* a login failed while the manager was Authenticated, which it still is
C15_Witness ==
    /\ last.op = "login"
    /\ ~last.ret
    /\ isAuthenticated
    /\ user # Null

\* C16: a logout called directly after a logout changes neither user,
\* isAuthenticated nor either tier, and a logout called on a manager that is already
\* logged out (user null, not authenticated, both tiers without a session) changes
\* none of them either.
C16_LogoutIdempotent ==
    [][ (last'.op = "logout" /\
            (last'.again \/ (user = Null /\ ~isAuthenticated /\ Purged(localStorage) /\ Purged(sessionStorage)))) =>
          UNCHANGED <<user, isAuthenticated, localStorage, sessionStorage>> ]_vars
\* logout has been called twice in a row
C16_Witness ==
    /\ last.op = "logout"
    /\ last.again
    /\ user = Null
    /\ ~isAuthenticated
    /\ Purged(localStorage)
    /\ Purged(sessionStorage)

\* C17: every login call in flight is eventually resolved; each resolution hands the
\* caller the boolean true or false through a fulfilled promise, never a rejection,
\* whatever the input (a missing password and a malformed email included); and a
\* login that fails leaves user, isAuthenticated and isLoading as they were.
C17_LoginAlwaysSettles ==
    /\ (pending # <<>>) ~> (last.op = "login")
    /\ [][ last'.op = "login" =>
             /\ last'.settled = "fulfilled"
             /\ last'.ret \in BOOLEAN
             /\ (last'.error # "none" =>
                    ~last'.ret /\ UNCHANGED <<user, isAuthenticated, isLoading>>) ]_vars
\* a login called without a password has resolved false: the TypeError was caught
C17_Witness ==
    /\ last.op = "login"
    /\ last.error = "TypeError"
    /\ last.settled = "fulfilled"
    /\ last.ret = FALSE

\* a form as the claim words it: names of at least 2 characters, an email of valid
\* shape, a password of at least 8 characters, an equal confirmation, terms agreed
FormOK(f) ==
    /\ Len(f.firstName) >= 2
    /\ Len(f.lastName) >= 2
    /\ ShapeOK(f.email)
    /\ Len(f.password) >= 8
    /\ f.confirmPassword = f.password
    /\ f.agreeToTerms

\* C18: a SignUpPage submission whose form passes every check ends, when its wait is
\* over, with the 'Account created successfully' toast shown and the navigation to
\* /dashboard scheduled.
C18_ValidSignUpSucceeds ==
    [][ (last'.op = "signUpSettle" /\ FormOK(Head(ui.signUp.awaiting))) =>
          /\ ui'.signUp.toast = "Account created successfully! Redirecting..."
          /\ ui'.signUp.navigateTimer ]_vars

\* the Session in memory is more than 24 hours old
Stale == user # Null /\ "loginTime" \in DOMAIN user /\ Elapsed(user) > 86400000

\* C19: whenever the manager is Authenticated with a Session more than 24 hours old
\* (one recovered at bootstrap included), and the sweep interval keeps firing, the
\* manager eventually is Anonymous with both tiers purged.
C19_ExpiryEventuallyEnforced ==
    (isAuthenticated /\ Stale) ~>
        (~isAuthenticated /\ user = Null /\ Purged(localStorage) /\ Purged(sessionStorage))
\* the interval has fired on a Session that had grown too old and has logged it out
C19_Witness ==
    /\ last.op = "validateSession"
    /\ last.by = "interval"
    /\ ~last.ret
    /\ ~isAuthenticated
    /\ user = Null
    /\ Purged(localStorage)
    /\ Purged(sessionStorage)
    /\ now > 86400000

\* C20: whatever was called while a login with a well-shaped email and a password
\* of at least 6 characters was in flight (logout, validateSession, updateUser,
\* another login), at the step that resolves it the call returns true, the manager
\* is Authenticated, user is that call's Session (its email, its rememberMe, the
\* time of the resolution) and the tier its rememberMe selects holds that Session.
C20_LoginRunsToCompletion ==
    [][ (last'.op = "login" /\ ShapeOK(Head(pending).email) /\ LongEnough(Head(pending).password)) =>
          LET call == Head(pending)
              chosen == IF call.rememberMe THEN localStorage' ELSE sessionStorage'
          IN  /\ last'.ret = TRUE
              /\ isAuthenticated' = TRUE
              /\ user' # Null
              /\ user'.email = call.email
              /\ user'.rememberMe = call.rememberMe
              /\ user'.loginTime.iso = now
              /\ getItem(chosen, "user") = JSONstringify(user') ]_vars
\* a login resolved true directly after a logout that was issued while it was in
\* flight, with another login still in flight behind it
C20_Witness ==
    /\ last.op = "login"
    /\ last.ret
    /\ last.afterLogout
    /\ pending # <<>>
    /\ isAuthenticated
    /\ user # Null

\* no login is in flight and the last state change has been rendered
Quiescent == pending = <<>> /\ rendered = value
\* the tier holds no user entry, or the serialization of the user in memory
FreshCopy(st) == HasUser(st) => getItem(st, "user") = JSONstringify(user)

\* C21: in every reachable state where isAuthenticated is true and no operation is
\* in flight, each tier that holds a user entry holds the serialization of the
\* user in memory.
C21_StoredCopiesFresh ==
    (isAuthenticated /\ Quiescent) => (FreshCopy(localStorage) /\ FreshCopy(sessionStorage))

\* the object u carries every field of the partial p
Carries(u, p) == u # Null /\ \A k \in DOMAIN p : k \in DOMAIN u /\ u[k] = p[k]
\* a tier's user entry, if it has one, is the serialization of u
CopyOf(st, u) == Truthy(getItem(st, "user")) => getItem(st, "user") = JSONstringify(u)

\* C22: when updateUser(p2) is called directly after updateUser(p1) while
\* authenticated, before or after the provider has re-rendered, the resulting user
\* is the user the first call left with the fields of p2 laid over it, so it
\* carries p2 and whatever of p1 that p2 does not overwrite, and the stored copies
\* are that user's.
C22_NoLostUpdate ==
    [][ (last.op = "updateUser" /\ last'.op = "updateUser" /\ isAuthenticated /\ user # Null) =>
          \E p1 \in Partials, p2 \in Partials :
              /\ Carries(user, p1)
              /\ Carries(user', p2)
              /\ \A k \in (DOMAIN p1) \ (DOMAIN p2) : k \in DOMAIN user' /\ user'[k] = p1[k]
              /\ MergedOver(user', user, p2)
              /\ CopyOf(localStorage', user')
              /\ CopyOf(sessionStorage', user') ]_vars

\* the form passes the checks the claim words
FormAccepted(f) == f.email # <<>> /\ ShapeOK(f.email) /\ Len(f.password) >= 6

\* C23: LoginPage.handleSubmit hands the form to login only when its email is
\* non-empty and well-shaped and its password has at least 6 characters; on a form
\* error it records the errors, leaves isSubmitting false, shows the error toast and
\* issues no login; every login the page issued returns true and the "Login
\* failed" toast never shows.
C23_PageLoginsSucceed ==
    [][ /\ (last'.op = "loginPageSubmit" /\ ~FormAccepted(last'.form)) =>
              /\ ui'.loginPage.errors # {}
              /\ ~ui'.loginPage.isSubmitting
              /\ ui'.loginPage.toast = "Please fix the errors above"
              /\ ui'.loginPage.awaiting = <<>> /\ ui'.loginPage.calling = <<>>
              /\ pending' = pending
        /\ (last'.op = "loginPageSubmit" /\ FormAccepted(last'.form)) =>
              ui'.loginPage.awaiting = <<last'.form>> /\ ui'.loginPage.isSubmitting
        /\ (last'.op = "loginPageCall") =>
              /\ FormAccepted(Head(ui.loginPage.awaiting))
              /\ pending' = Append(pending, Head(ui'.loginPage.calling))
        /\ (last'.op = "login" /\ ui.loginPage.calling # <<>>) => last'.ret = TRUE
        /\ (last'.op = "loginPageSettle") =>
              last'.success /\ ui'.loginPage.toast = "Login successful! Redirecting..."
        /\ ui'.loginPage.toast # "Login failed. Please check your credentials." ]_vars
\* a login issued by the page has returned true and the page shows the success toast
C23_Witness ==
    /\ last.op = "loginPageSettle" /\ last.success
    /\ ui.loginPage.toast = "Login successful! Redirecting..."
    /\ isAuthenticated

\* the page on the route has rendered with the current context value
Settled == ~pageStale

\* C24: DashboardPage shows its content only with isAuthenticated true in the
\* context value it rendered with; whenever it has rendered on /dashboard with
\* isAuthenticated false (after a logout, a swept expiry, or at its mount) it shows
\* nothing, its redirect effect is due, and that effect navigates to /login.
C24_DashboardGuard ==
    /\ [](  /\ (dashboardContent /\ Settled) => rendered.isAuthenticated
            /\ (Settled /\ ui.route = "/dashboard" /\ ~rendered.isAuthenticated) =>
                  (~dashboardContent /\ ui.screen.effectDue)  )
    /\ [][ /\ (last'.op = "pageEffect" /\ ui.route = "/dashboard" /\ ~ui.screen.isAuthenticated) =>
                ui'.route = "/login"
           /\ (last'.op = "handleLogout") => ui'.route = "/login" ]_vars
\* the dashboard was showing its content, the sweep found the Session expired, and
\* the page has rendered again: nothing is shown and the redirect is due
C24_Witness ==
    /\ last.op = "pageRender" /\ last.over
    /\ Settled /\ ui.route = "/dashboard" /\ ~rendered.isAuthenticated
    /\ ~dashboardContent /\ ui.screen.effectDue

\* the submitted email passes the checks the claim words
EmailAccepted(e) == e # <<>> /\ ShapeOK(e)

\* C26: on ForgotPasswordPage a submission with an empty or ill-shaped email sets
\* the error message, leaves isSubmitting false and starts nothing that could reach
\* the success view; a submission with a well-shaped email eventually shows the
\* success view with the success toast; "Try again" returns to the form with
\* isSuccess false and an empty email.
C26_ForgotPasswordFlow ==
    /\ [][ /\ (last'.op = "forgotSubmit" /\ ~EmailAccepted(last'.email)) =>
                /\ ui'.forgot.error # ""
                /\ ~ui'.forgot.isSubmitting /\ ~ui'.forgot.awaiting /\ ~ui'.forgot.isSuccess
           /\ (~ui.forgot.isSuccess /\ ui'.forgot.isSuccess) =>
                (ui.forgot.isSubmitting /\ EmailAccepted(ui.forgot.email))
           /\ (last'.op = "forgotTryAgain") =>
                (~ui'.forgot.isSuccess /\ ui'.forgot.email = <<>>) ]_vars
    /\ (last.op = "forgotSubmit" /\ EmailAccepted(last.email)) ~>
          (ui.forgot.isSuccess /\ ui.forgot.toast = "Password reset instructions sent to your email!")
\* the success view was reached and "Try again" has brought the empty form back
C26_Witness ==
    /\ last.op = "forgotTryAgain"
    /\ ~ui.forgot.isSuccess /\ ui.forgot.email = <<>>
    /\ ui.forgot.toast = "Password reset instructions sent to your email!"

\* a submission of the page is between its start and its outcome
LoginInFlight == ui.loginPage.awaiting # <<>> \/ ui.loginPage.calling # <<>>
SignUpInFlight == ui.signUp.awaiting # <<>>
ForgotInFlight == ui.forgot.awaiting

\* C25: on LoginPage, SignUpPage and ForgotPasswordPage isSubmitting is true only
\* while a submission is between its start and its outcome, a submission that fails
\* the form checks leaves it false, and whenever it is true it eventually is false
\* again.
C25_SubmittingEnds ==
    /\ [](  /\ ui.loginPage.isSubmitting => LoginInFlight
            /\ ui.signUp.isSubmitting => SignUpInFlight
            /\ ui.forgot.isSubmitting => ForgotInFlight  )
    /\ [][ /\ (last'.op = "loginPageSubmit" /\ ~LoginInFlight') => ~ui'.loginPage.isSubmitting
           /\ (last'.op = "signUpSubmit" /\ ~SignUpInFlight') => ~ui'.signUp.isSubmitting
           /\ (last'.op = "forgotSubmit" /\ ~ForgotInFlight') => ~ui'.forgot.isSubmitting ]_vars
    /\ (ui.loginPage.isSubmitting = TRUE) ~> (ui.loginPage.isSubmitting = FALSE)
    /\ (ui.signUp.isSubmitting = TRUE) ~> (ui.signUp.isSubmitting = FALSE)
    /\ (ui.forgot.isSubmitting = TRUE) ~> (ui.forgot.isSubmitting = FALSE)
\* the call of SignUpPage threw inside handleSubmit and the button is free again
C25_Witness ==
    /\ last.op = "signUpSettle" /\ last.threw
    /\ ~ui.signUp.isSubmitting /\ ~SignUpInFlight

\* C27: a Toast shown with duration > 0 eventually calls onClose by its timer
\* unless it is unmounted first, also when its page re-renders while it is shown; no
\* timer outlives the toast, so onClose is never called by a timer once the toast is
\* gone; with duration <= 0 no timer is ever pending.
C27_ToastAutoCloses ==
    /\ [](  /\ ~ui.toast.shown => ui.toast.timer = <<>>
            /\ (ui.toast.shown /\ ui.toast.duration <= 0) => ui.toast.timer = <<>>  )
    /\ [][ last'.op = "toastFire" => (last'.shown /\ ui.toast.duration > 0) ]_vars
    /\ (ui.toast.shown /\ ui.toast.duration > 0) ~> (~ui.toast.shown)

\* C28: from empty storage, in every reachable state where bootstrap has completed
\* and isAuthenticated is false, neither tier holds a user or an isAuthenticated
\* key, reloads of the page included.
C28_AnonymousMeansPurged ==
    (initTimer = "fired" /\ ~isAuthenticated) => (Purged(localStorage) /\ Purged(sessionStorage))

\* the application has just started with a valid remembered Session in localStorage
RememberedStart ==
    /\ last.op = "mount"
    /\ localStorage = persistSession(EmptyStorage, RememberedSession)
\* the dashboard is on screen with its content, for an authenticated manager
OnDashboard ==
    /\ ui.route = "/dashboard" /\ dashboardContent
    /\ isAuthenticated /\ rendered.isAuthenticated

\* C29: started on /, /login, /signup or /dashboard with a valid remembered Session
\* in localStorage, the application ends up on /dashboard for good, authenticated
\* and with the dashboard content on screen; a start on /dashboard is first sent to
\* /login while the bootstrap is pending.
C29_StartSettlesOnDashboard ==
    /\ RememberedStart => <>[]OnDashboard
    /\ (RememberedStart /\ ui.route = "/dashboard") => <>(ui.route = "/login" /\ initTimer = "pending")
\* the dashboard has mounted after the recovery and its own effect found nothing
\* to redirect
C29_Witness ==
    /\ last.op = "pageEffect" /\ last.from = "/dashboard" /\ last.to = "/dashboard"
    /\ OnDashboard /\ Settled /\ ~ui.screen.effectDue
    /\ user = RememberedSession

====
